---------------------------- MODULE Spec2Model ----------------------------
(***************************************************************************)
(* A model of the bedlam tree-walking interpreter (src/interpret.py).      *)
(*                                                                         *)
(* Runtime values and AST payloads are tagged records [t, v].  Scope       *)
(* dictionaries live in a heap of frames [scope, parent]; a context        *)
(* {'scope': d, 'parent': c} is the index of its frame.  evaluate and the  *)
(* builtins are operators over an explicit store (heap, evaluation trace,  *)
(* active call of evaluate); the driver interpret is the state machine.     *)
(***************************************************************************)
EXTENDS Integers, Sequences, FiniteSets, TLC

VARIABLES
    phase,      \* "boot" before library.bedlam is loaded, "running", "idle"
    heap,       \* the scope dictionaries that exist, each with its parent
    ast,        \* the program handed to the running interpret call
    scope,      \* frame of the top-level scope of the running call
    given,      \* what that scope held when it was handed to interpret
    pc,         \* number of top-level statements evaluate_all has finished
    results,    \* evaluate_all's result list so far
    log,        \* trace of the evaluate calls of the current run
    outcome,    \* what the last interpret call returned or raised
    runs        \* interpret calls made by the host so far

vars == <<phase, heap, ast, scope, given, pc, results, log, outcome, runs>>

-----------------------------------------------------------------------------
(* Values *)

IntV(n) == [t |-> "int", v |-> n]
BoolV(b) == [t |-> "bool", v |-> b]
StrV(s) == [t |-> "str", v |-> s]
ListV(xs) == [t |-> "list", v |-> xs]
NilV == [t |-> "nil", v |-> 0]

RECURSIVE Gcd(_, _)
Gcd(a, b) == IF b = 0 THEN a ELSE Gcd(b, a % b)

Abs(n) == IF n < 0 THEN 0 - n ELSE n

\* a float, kept as a reduced fraction with a positive denominator
FloatV(n, d) ==
    LET g == Gcd(Abs(n), Abs(d))
        s == IF d < 0 THEN 0 - 1 ELSE 1
    IN [t |-> "float", v |-> <<(s * n) \div g, (s * d) \div g>>]

BuiltinV(name) == [t |-> "builtin", v |-> name]

IsNumber(x) == x.t \in {"int", "bool", "float"}

\* numerator and denominator of a number
Num(x) ==
    CASE x.t = "int" -> <<x.v, 1>>
      [] x.t = "bool" -> <<IF x.v THEN 1 ELSE 0, 1>>
      [] x.t = "float" -> x.v

IsFloat(x) == x.t = "float"

MkNum(n, d, float) == IF float THEN FloatV(n, d) ELSE IntV(n \div d)

\* type(fn).__name__ == 'function'
IsFunction(x) == x.t \in {"builtin", "closure", "partial"}

\* Python truthiness
Truthy(x) ==
    CASE x.t = "nil" -> FALSE
      [] x.t = "bool" -> x.v
      [] x.t \in {"int", "float"} -> Num(x)[1] # 0
      [] x.t = "str" -> x.v # ""
      [] x.t = "list" -> Len(x.v) > 0
      [] OTHER -> TRUE

RECURSIVE PyEq(_, _)
\* Python ==
PyEq(a, b) ==
    IF IsNumber(a) /\ IsNumber(b)
    THEN Num(a)[1] * Num(b)[2] = Num(b)[1] * Num(a)[2]
    ELSE IF a.t # b.t THEN FALSE
    ELSE IF a.t = "list"
    THEN /\ Len(a.v) = Len(b.v)
         /\ \A i \in 1..Len(a.v) : PyEq(a.v[i], b.v[i])
    ELSE a = b

-----------------------------------------------------------------------------
(* AST nodes: {'type', 'value', 'location'}.  The payload of call and vec  *)
(* nodes is the list of child nodes; that of the other nodes is a value.   *)

NodesV(ns) == [t |-> "nodes", v |-> ns]

Loc(c) == [line |-> 1, column |-> c]

Node(type, value, c) == [type |-> type, value |-> value, location |-> Loc(c)]

IdN(name, c) == Node("identifier", StrV(name), c)
IntN(n, c) == Node("int", IntV(n), c)
StrN(s, c) == Node("string", StrV(s), c)
CallN(ns, c) == Node("call", NodesV(ns), c)
VecN(ns, c) == Node("vec", NodesV(ns), c)

wrap(node, type, value) == [node EXCEPT !.type = type, !.value = value]

-----------------------------------------------------------------------------
(* Store and results of an evaluation *)

NoParent == 0

EmptyScope == [n \in {} |-> NilV]

Bind(s, n, x) == [m \in DOMAIN s \cup {n} |-> IF m = n THEN x ELSE s[m]]

\* dict.update
Update(s, other) ==
    [m \in DOMAIN s \cup DOMAIN other |-> IF m \in DOMAIN other THEN other[m] ELSE s[m]]

Ok(st, x) == [st |-> st, k |-> "val", v |-> x]

InterpeterError(st, message, node) ==
    [st |-> st, k |-> "err",
     v |-> [t |-> "InterpeterError", v |-> <<message, node.location>>]]

\* an exception of the host language that is no InterpeterError
HostError(st, exc) == [st |-> st, k |-> "host", v |-> [t |-> exc, v |-> <<>>]]

InterpreterReturn(st, x) == [st |-> st, k |-> "exit", v |-> x]

\* a new context {'parent': parent, 'scope': s}
NewFrame(st, s, parent) ==
    [st EXCEPT !.heap = Append(@, [scope |-> s, parent |-> parent])]

None == 0 - 1

ArityMessage == "Incorrect number of arguments passed"

\* assert_arity: TRUE when it raises
assert_arity(args, exact, min, max) ==
    LET n == Len(args)
    IN \/ exact # None /\ n # exact
       \/ min # None /\ n < min
       \/ max # None /\ n > max

ArityError(st, node) == InterpeterError(st, ArityMessage, node)

-----------------------------------------------------------------------------
(* AST type handlers *)

RECURSIVE evaluate(_, _, _)
RECURSIVE evaluate_all(_, _, _)

\* the frame, walking from context outward, whose scope binds name; 0 if none
RECURSIVE Resolve(_, _, _)
Resolve(name, context, hp) ==
    IF context = NoParent THEN NoParent
    ELSE IF name \in DOMAIN hp[context].scope THEN context
    ELSE Resolve(name, hp[context].parent, hp)

UnresolvedMessage == "Unable to resolve name"

\* The payload of a parsed identifier is its name.  reduce re-wraps runtime
\* values as identifier nodes: an unhashable one makes the dictionary test
\* raise TypeError, any other non-string is a key no scope holds.
handle_identifier(node, context, st) ==
    LET value == node.value
    IN IF value.t \in {"list", "nodes"} THEN HostError(st, "TypeError")
       ELSE IF value.t # "str" THEN InterpeterError(st, UnresolvedMessage, node)
       ELSE LET f == Resolve(value.v, context, st.heap)
            IN IF f = NoParent
               THEN InterpeterError(st, UnresolvedMessage, node)
               ELSE Ok(st, st.heap[f].scope[value.v])

\* handle_any, handle_int, handle_float, handle_string
handle_any(node, context, st) == Ok(st, node.value)

\* A parsed vec holds child nodes.  reduce re-wraps runtime values as vec
\* nodes: an empty list or string evaluates to [], anything else raises.
handle_vec(node, context, st) ==
    LET value == node.value
    IN IF value.t = "nodes" THEN evaluate_all(value.v, context, st)
       ELSE IF value.t = "list" /\ Len(value.v) = 0 THEN Ok(st, ListV(<<>>))
       ELSE IF value.t = "str" /\ value.v = "" THEN Ok(st, ListV(<<>>))
       ELSE HostError(st, "TypeError")

-----------------------------------------------------------------------------
(* Builtins *)

\* defn
fn_defn(args, node, context, st) ==
    IF assert_arity(args, None, 3, None) THEN ArityError(st, node)
    ELSE LET name == args[1]
             fnargs == <<wrap(node, "identifier", StrV("fn"))>> \o Tail(args)
             r == evaluate(wrap(node, "call", NodesV(fnargs)), context, st)
         IN IF r.k # "val" THEN r
            ELSE IF name.value.t # "str" THEN HostError(r.st, "TypeError")
            ELSE Ok([r.st EXCEPT !.heap[context].scope = Bind(@, name.value.v, r.v)],
                    NilV)

\* fn
fn_fn(args, node, context, st) ==
    IF assert_arity(args, None, 2, None) THEN ArityError(st, node)
    ELSE IF Len(args) # 2 THEN HostError(st, "ValueError")
    ELSE LET params == args[1]
             body == args[2]
         IN IF params.value.t # "nodes" THEN HostError(st, "TypeError")
            ELSE LET ps == params.value.v
                     bad == {i \in 1..Len(ps) : ps[i].type # "identifier"}
                 IN IF bad # {}
                    THEN InterpeterError(st, "Invalid function parameter",
                            ps[CHOOSE i \in bad : \A j \in bad : i <= j])
                    ELSE Ok(st, [t |-> "closure",
                                 v |-> [params |-> params, body |-> body,
                                        context |-> context, node |-> node]])

\* the for loop of fn_fn.f from index i (1-based) on: the new scope and the
\* value Python's i holds when the loop ends
RECURSIVE bind_params(_, _, _, _, _, _)
bind_params(ps, i, caller_args, caller_context, st, new_scope) ==
    IF i > Len(ps) THEN Ok(st, [scope |-> new_scope, i |-> i - 2])
    ELSE IF PyEq(ps[i].value, StrV("&"))
    THEN LET r == evaluate_all(SubSeq(caller_args, i, Len(caller_args)),
                               caller_context, st)
         IN IF r.k # "val" THEN r
            ELSE IF i + 1 > Len(ps) THEN HostError(r.st, "IndexError")
            ELSE Ok(r.st, [scope |-> Bind(new_scope, ps[i + 1].value.v, r.v),
                           i |-> i - 1])
    ELSE IF i > Len(caller_args) THEN HostError(st, "IndexError")
    ELSE LET r == evaluate(caller_args[i], caller_context, st)
         IN IF r.k # "val" THEN r
            ELSE bind_params(ps, i + 1, caller_args, caller_context, r.st,
                             Bind(new_scope, ps[i].value.v, r.v))

\* dynamic scoping: the new frame hangs under the caller's context
fn_fn_f_parent_dynamic(f, caller_context) == caller_context

\* the parent of the frame a call of closure f creates
fn_fn_f_parent(f, caller_context) == f.context

\* fn_fn.f: a call of the closure fn
fn_fn_f(fn, caller_args, caller_node, caller_context, st) ==
    LET f == fn.v
        ps == f.params.value.v
        b == bind_params(ps, 1, caller_args, caller_context, st, EmptyScope)
    IN IF b.k # "val" THEN b
       ELSE IF Len(ps) = 0 THEN HostError(b.st, "UnboundLocalError")
       ELSE IF Len(ps) > b.v.i + 2
       THEN InterpeterError(b.st, "Only one rest argument should be defined", f.node)
       ELSE LET st1 == NewFrame(b.st, b.v.scope, fn_fn_f_parent(f, caller_context))
            IN evaluate(f.body, Len(st1.heap), st1)

\* partial
fn_partial(args, node, context, st) ==
    IF assert_arity(args, None, 2, None) THEN ArityError(st, node)
    ELSE Ok(st, [t |-> "partial",
                 v |-> [name |-> args[1], args |-> Tail(args),
                        context |-> context, node |-> node]])

\* fn_partial.f: a call of the partial application fn
fn_partial_f(fn, caller_args, caller_node, caller_context, st) ==
    LET p == fn.v
    IN evaluate(wrap(p.node, "call", NodesV(<<p.name>> \o p.args \o caller_args)),
                p.context, st)

\* apply
fn_apply(args, node, context, st) ==
    IF assert_arity(args, 2, None, None) THEN ArityError(st, node)
    ELSE LET f == args[1]
             r == evaluate(args[2], context, st)
         IN IF r.k # "val" THEN r
            ELSE IF r.v.t # "list" THEN HostError(r.st, "TypeError")
            ELSE LET xs == [i \in 1..Len(r.v.v) |-> wrap(node, "any", r.v.v[i])]
                 IN evaluate(wrap(node, "call", NodesV(<<f>> \o xs)), context, r.st)

\* the list comprehension of map (keep = FALSE) and filter (keep = TRUE)
RECURSIVE comprehension(_, _, _, _, _, _, _, _)
comprehension(f, xs, i, node, context, st, acc, keep) ==
    IF i > Len(xs) THEN Ok(st, ListV(acc))
    ELSE LET r == evaluate(wrap(node, "call", NodesV(<<f, wrap(node, "any", xs[i])>>)),
                           context, st)
         IN IF r.k # "val" THEN r
            ELSE comprehension(f, xs, i + 1, node, context, r.st,
                    IF keep THEN (IF Truthy(r.v) THEN Append(acc, xs[i]) ELSE acc)
                    ELSE Append(acc, r.v),
                    keep)

\* map
fn_map(args, node, context, st) ==
    IF assert_arity(args, 2, None, None) THEN ArityError(st, node)
    ELSE LET r == evaluate(args[2], context, st)
         IN IF r.k # "val" THEN r
            ELSE IF r.v.t # "list" THEN HostError(r.st, "TypeError")
            ELSE comprehension(args[1], r.v.v, 1, node, context, r.st, <<>>, FALSE)

\* filter
fn_filter(args, node, context, st) ==
    IF assert_arity(args, 2, None, None) THEN ArityError(st, node)
    ELSE LET r == evaluate(args[2], context, st)
         IN IF r.k # "val" THEN r
            ELSE IF r.v.t # "list" THEN HostError(r.st, "TypeError")
            ELSE comprehension(args[1], r.v.v, 1, node, context, r.st, <<>>, TRUE)

\* the node reduce passes as the accumulator
reduce_acc(node, init, r) == wrap(node, init.type, r)

\* the for loop of reduce from child i of xs on, r the accumulator
RECURSIVE reduce_loop(_, _, _, _, _, _, _, _)
reduce_loop(f, init, xs, i, node, context, st, r) ==
    IF i > Len(xs) THEN Ok(st, r)
    ELSE LET s == evaluate(wrap(node, "call",
                                NodesV(<<f, xs[i], reduce_acc(node, init, r)>>)),
                           context, st)
         IN IF s.k # "val" THEN s
            ELSE reduce_loop(f, init, xs, i + 1, node, context, s.st, s.v)

\* reduce
fn_reduce(args, node, context, st) ==
    IF assert_arity(args, 3, None, None) THEN ArityError(st, node)
    ELSE LET f == args[1]
             init == args[2]
             xs == args[3]
             r == evaluate(init, context, st)
         IN IF r.k # "val" THEN r
            ELSE IF xs.value.t # "nodes" THEN HostError(r.st, "TypeError")
            ELSE reduce_loop(f, init, xs.value.v, 1, node, context, r.st, r.v)

\* the dict comprehension of let from pair i on
RECURSIVE let_pairs(_, _, _, _, _)
let_pairs(pairs, i, context, st, new_scope) ==
    IF i > Len(pairs) THEN Ok(st, new_scope)
    ELSE IF pairs[i].value.t # "str" THEN HostError(st, "TypeError")
    ELSE IF i + 1 > Len(pairs) THEN HostError(st, "IndexError")
    ELSE LET r == evaluate(pairs[i + 1], context, st)
         IN IF r.k # "val" THEN r
            ELSE let_pairs(pairs, i + 2, context, r.st,
                           Bind(new_scope, pairs[i].value.v, r.v))

\* let
fn_let(args, node, context, st) ==
    IF assert_arity(args, None, 2, None) THEN ArityError(st, node)
    ELSE IF Len(args) # 2 THEN HostError(st, "ValueError")
    ELSE LET params == args[1]
             body == args[2]
         IN IF params.value.t # "nodes" THEN HostError(st, "TypeError")
            ELSE LET b == let_pairs(params.value.v, 1, context, st, EmptyScope)
                 IN IF b.k # "val" THEN b
                    ELSE LET st1 == NewFrame(b.st, b.v, context)
                         IN evaluate(body, Len(st1.heap), st1)

\* if that evaluates both branches before it selects one
fn_if_eager(args, node, context, st) ==
    IF assert_arity(args, 3, None, None) THEN ArityError(st, node)
    ELSE LET c == evaluate(args[1], context, st)
             yes == evaluate(args[2], context, c.st)
             no == evaluate(args[3], context, yes.st)
         IN IF c.k # "val" THEN c
            ELSE IF yes.k # "val" THEN yes
            ELSE IF no.k # "val" THEN no
            ELSE Ok(no.st, IF Truthy(c.v) THEN yes.v ELSE no.v)

\* if
fn_if(args, node, context, st) ==
    IF assert_arity(args, 3, None, None) THEN ArityError(st, node)
    ELSE LET c == evaluate(args[1], context, st)
         IN IF c.k # "val" THEN c
            ELSE IF Truthy(c.v) THEN evaluate(args[2], context, c.st)
            ELSE evaluate(args[3], context, c.st)

\* when
fn_when(args, node, context, st) ==
    IF assert_arity(args, 2, None, None) THEN ArityError(st, node)
    ELSE LET c == evaluate(args[1], context, st)
         IN IF c.k # "val" THEN c
            ELSE IF Truthy(c.v) THEN evaluate(args[2], context, c.st)
            ELSE Ok(c.st, NilV)

\* the for loop of case from pair i on
\* (hit is FALSE when the loop ends without a return)
RECURSIVE case_loop(_, _, _, _, _)
case_loop(pairs, i, value, context, st) ==
    IF i > Len(pairs) THEN Ok(st, [hit |-> FALSE, x |-> NilV])
    ELSE LET r == evaluate(pairs[i], context, st)
         IN IF r.k # "val" THEN r
            ELSE IF PyEq(r.v, value)
            THEN LET s == evaluate(pairs[i + 1], context, r.st)
                 IN IF s.k # "val" THEN s ELSE Ok(s.st, [hit |-> TRUE, x |-> s.v])
            ELSE case_loop(pairs, i + 2, value, context, r.st)

\* what case does once no key has matched: the local default is bound only
\* when the number of pairs is odd, and a node is always truthy
case_no_match(args, node, context, st) ==
    LET pairs == Tail(args)
    IN IF Len(pairs) % 2 = 1 THEN evaluate(pairs[Len(pairs)], context, st)
       ELSE HostError(st, "UnboundLocalError")

\* case
fn_case(args, node, context, st) ==
    IF assert_arity(args, None, 2, None) THEN ArityError(st, node)
    ELSE LET value == evaluate(args[1], context, st)
             all == Tail(args)
             pairs == IF Len(all) % 2 = 1 THEN SubSeq(all, 1, Len(all) - 1) ELSE all
         IN IF value.k # "val" THEN value
            ELSE LET m == case_loop(pairs, 1, value.v, context, value.st)
                 IN IF m.k # "val" THEN m
                    ELSE IF m.v.hit THEN Ok(m.st, m.v.x)
                    ELSE case_no_match(args, node, context, m.st)

\* exit that returns its argument's value instead of raising
fn_exit_returns(args, node, context, st) ==
    IF assert_arity(args, 1, None, None) THEN ArityError(st, node)
    ELSE evaluate(args[1], context, st)

\* exit
fn_exit(args, node, context, st) ==
    IF assert_arity(args, 1, None, None) THEN ArityError(st, node)
    ELSE LET r == evaluate(args[1], context, st)
         IN IF r.k # "val" THEN r ELSE InterpreterReturn(r.st, r.v)

\* not
fn_not(args, node, context, st) ==
    IF assert_arity(args, 1, None, None) THEN ArityError(st, node)
    ELSE LET r == evaluate(args[1], context, st)
         IN IF r.k # "val" THEN r ELSE Ok(r.st, BoolV(~Truthy(r.v)))

RECURSIVE SumNum(_)
\* the sum of a list of numbers, as a fraction
SumNum(xs) ==
    IF xs = <<>> THEN <<0, 1>>
    ELSE LET a == Num(Head(xs))
             b == SumNum(Tail(xs))
         IN <<a[1] * b[2] + b[1] * a[2], a[2] * b[2]>>

\* +
fn_plus(args, node, context, st) ==
    LET r == evaluate_all(args, context, st)
    IN IF r.k # "val" THEN r
       ELSE IF \E i \in 1..Len(r.v.v) : ~IsNumber(r.v.v[i])
       THEN HostError(r.st, "TypeError")
       ELSE LET s == SumNum(r.v.v)
            IN Ok(r.st, MkNum(s[1], s[2], \E i \in 1..Len(r.v.v) : IsFloat(r.v.v[i])))

\* -
fn_minus(args, node, context, st) ==
    IF assert_arity(args, 2, None, None) THEN ArityError(st, node)
    ELSE LET r == evaluate_all(args, context, st)
         IN IF r.k # "val" THEN r
            ELSE LET a == r.v.v[1]
                     b == r.v.v[2]
                 IN IF ~(IsNumber(a) /\ IsNumber(b)) THEN HostError(r.st, "TypeError")
                    ELSE Ok(r.st, MkNum(Num(a)[1] * Num(b)[2] - Num(b)[1] * Num(a)[2],
                                        Num(a)[2] * Num(b)[2],
                                        IsFloat(a) \/ IsFloat(b)))

\* /
fn_divide(args, node, context, st) ==
    IF assert_arity(args, 2, None, None) THEN ArityError(st, node)
    ELSE LET r == evaluate_all(args, context, st)
         IN IF r.k # "val" THEN r
            ELSE LET a == r.v.v[1]
                     b == r.v.v[2]
                 IN IF PyEq(b, IntV(0)) THEN InterpeterError(r.st, "Division by zero", node)
                    ELSE IF ~(IsNumber(a) /\ IsNumber(b)) THEN HostError(r.st, "TypeError")
                    ELSE Ok(r.st, FloatV(Num(a)[1] * Num(b)[2], Num(a)[2] * Num(b)[1]))

\* >, < and =; an ordering of values that are not both numbers is not modelled
fn_compare(op, args, node, context, st) ==
    IF assert_arity(args, 2, None, None) THEN ArityError(st, node)
    ELSE LET r == evaluate_all(args, context, st)
         IN IF r.k # "val" THEN r
            ELSE LET a == r.v.v[1]
                     b == r.v.v[2]
                 IN IF op = "=" THEN Ok(r.st, BoolV(PyEq(a, b)))
                    ELSE IF ~(IsNumber(a) /\ IsNumber(b)) THEN HostError(r.st, "TypeError")
                    ELSE LET l == Num(a)[1] * Num(b)[2]
                             h == Num(b)[1] * Num(a)[2]
                         IN Ok(r.st, BoolV(IF op = ">" THEN l > h ELSE l < h))

\* or (any) and and (all)
fn_logic(op, args, node, context, st) ==
    LET r == evaluate_all(args, context, st)
    IN IF r.k # "val" THEN r
       ELSE Ok(r.st, BoolV(IF op = "or"
                           THEN \E i \in 1..Len(r.v.v) : Truthy(r.v.v[i])
                           ELSE \A i \in 1..Len(r.v.v) : Truthy(r.v.v[i])))

BuiltinNames ==
    {"defn", "fn", "partial", "apply", "map", "filter", "reduce", "let", "if",
     "when", "case", "exit", "not", "+", "-", "/", ">", "<", "=", "or", "and"}

\* the dictionary _builtins once the module is defined
Builtins ==
    [n \in BuiltinNames \cup {"true", "false", "nil"} |->
        CASE n = "true" -> BoolV(TRUE)
          [] n = "false" -> BoolV(FALSE)
          [] n = "nil" -> NilV
          [] OTHER -> BuiltinV(n)]

\* fn(args, node, context) for a function value fn
call_function(fn, args, node, context, st) ==
    CASE fn.t = "closure" -> fn_fn_f(fn, args, node, context, st)
      [] fn.t = "partial" -> fn_partial_f(fn, args, node, context, st)
      [] fn.v = "defn" -> fn_defn(args, node, context, st)
      [] fn.v = "fn" -> fn_fn(args, node, context, st)
      [] fn.v = "partial" -> fn_partial(args, node, context, st)
      [] fn.v = "apply" -> fn_apply(args, node, context, st)
      [] fn.v = "map" -> fn_map(args, node, context, st)
      [] fn.v = "filter" -> fn_filter(args, node, context, st)
      [] fn.v = "reduce" -> fn_reduce(args, node, context, st)
      [] fn.v = "let" -> fn_let(args, node, context, st)
      [] fn.v = "if" -> fn_if(args, node, context, st)
      [] fn.v = "when" -> fn_when(args, node, context, st)
      [] fn.v = "case" -> fn_case(args, node, context, st)
      [] fn.v = "exit" -> fn_exit(args, node, context, st)
      [] fn.v = "not" -> fn_not(args, node, context, st)
      [] fn.v = "+" -> fn_plus(args, node, context, st)
      [] fn.v = "-" -> fn_minus(args, node, context, st)
      [] fn.v = "/" -> fn_divide(args, node, context, st)
      [] fn.v \in {">", "<", "="} -> fn_compare(fn.v, args, node, context, st)
      [] fn.v \in {"or", "and"} -> fn_logic(fn.v, args, node, context, st)

\* A parsed call holds child nodes.  reduce re-wraps runtime values as call
\* nodes, which the unpacking or the evaluation of the callee rejects.
handle_call(node, context, st) ==
    LET value == node.value
    IN IF value.t # "nodes"
       THEN HostError(st, IF \/ value.t = "list" /\ Len(value.v) = 0
                             \/ value.t = "str" /\ value.v = ""
                          THEN "ValueError" ELSE "TypeError")
       ELSE IF Len(value.v) = 0 THEN HostError(st, "ValueError")
       ELSE LET name == Head(value.v)
                args == Tail(value.v)
                fn == evaluate(name, context, st)
            IN IF fn.k # "val" THEN fn
               ELSE IF ~IsFunction(fn.v)
               THEN InterpeterError(fn.st, "is not a function", node)
               ELSE call_function(fn.v, args, node, context, fn.st)

\* evaluate: dispatch on the node's type.  Each call is recorded in the trace
\* with its node, its context and the call of evaluate it was made from (up,
\* 0 for a top-level statement), and with its result once it ends.
evaluate(node, context, st) ==
    LET j == Len(st.log) + 1
        st1 == [st EXCEPT !.log = Append(@, [node |-> node, ctx |-> context,
                                             up |-> st.top,
                                             k |-> "pending", v |-> NilV]),
                          !.top = j]
        r == CASE node.type = "call" -> handle_call(node, context, st1)
               [] node.type = "identifier" -> handle_identifier(node, context, st1)
               [] node.type = "vec" -> handle_vec(node, context, st1)
               [] node.type \in {"any", "int", "float", "string"} ->
                      handle_any(node, context, st1)
               [] OTHER -> HostError(st1, "KeyError")
    IN [r EXCEPT !.st.top = st.top, !.st.log[j].k = r.k, !.st.log[j].v = r.v]

evaluate_all(nodes, context, st) ==
    IF nodes = <<>> THEN Ok(st, ListV(<<>>))
    ELSE LET r == evaluate(Head(nodes), context, st)
         IN IF r.k # "val" THEN r
            ELSE LET rs == evaluate_all(Tail(nodes), context, r.st)
                 IN IF rs.k # "val" THEN rs
                    ELSE Ok(rs.st, ListV(<<r.v>> \o rs.v.v))

-----------------------------------------------------------------------------
(* Inputs: the text of library.bedlam and the programs of the host, each as  *)
(* the AST parse() returns for the text in the comment above it.             *)

\* (defn inc [x] (+ x 1)) (defn twice [f] (fn [x] (f (f x)))) (defn redefine [x] (defn inc [y] x))
Prelude ==
    <<CallN(<<IdN("defn", 0), IdN("inc", 5), VecN(<<IdN("x", 9)>>, 10),
       CallN(<<IdN("+", 12), IdN("x", 14), IntN(1, 16)>>, 17)>>, 18),
       CallN(<<IdN("defn", 20), IdN("twice", 25), VecN(<<IdN("f", 31)>>, 32),
       CallN(<<IdN("fn", 34), VecN(<<IdN("x", 37)>>, 38), CallN(<<IdN("f",
       40), CallN(<<IdN("f", 42), IdN("x", 44)>>, 45)>>, 46)>>, 47)>>, 48),
       CallN(<<IdN("defn", 50), IdN("redefine", 55), VecN(<<IdN("x", 64)>>,
       65), CallN(<<IdN("defn", 67), IdN("inc", 72), VecN(<<IdN("y", 76)>>,
       77), IdN("x", 79)>>, 80)>>, 81)>>

\* (defn make [x] (fn [y] (+ x y))) (defn use [x f] (f 1)) (use 100 (make 10))
P_closure1 ==
    <<CallN(<<IdN("defn", 0), IdN("make", 5), VecN(<<IdN("x", 10)>>, 11),
       CallN(<<IdN("fn", 13), VecN(<<IdN("y", 16)>>, 17), CallN(<<IdN("+",
       19), IdN("x", 21), IdN("y", 23)>>, 24)>>, 25)>>, 26),
       CallN(<<IdN("defn", 28), IdN("use", 33), VecN(<<IdN("x", 37), IdN("f",
       39)>>, 40), CallN(<<IdN("f", 42), IntN(1, 44)>>, 45)>>, 46),
       CallN(<<IdN("use", 48), IntN(100, 52), CallN(<<IdN("make", 56),
       IntN(10, 61)>>, 63)>>, 64)>>

\* (defn adder [n] (fn [m] (+ n m))) (let [n 50 add2 (adder 2)] (add2 n))
P_closure2 ==
    <<CallN(<<IdN("defn", 0), IdN("adder", 5), VecN(<<IdN("n", 11)>>, 12),
       CallN(<<IdN("fn", 14), VecN(<<IdN("m", 17)>>, 18), CallN(<<IdN("+",
       20), IdN("n", 22), IdN("m", 24)>>, 25)>>, 26)>>, 27),
       CallN(<<IdN("let", 29), VecN(<<IdN("n", 33), IntN(50, 35), IdN("add2",
       38), CallN(<<IdN("adder", 43), IntN(2, 49)>>, 50)>>, 51),
       CallN(<<IdN("add2", 53), IdN("n", 58)>>, 59)>>, 60)>>

\* (defn mk [a] (fn [b] z)) (let [z 1] ((mk 0) 2))
P_closure3 ==
    <<CallN(<<IdN("defn", 0), IdN("mk", 5), VecN(<<IdN("a", 8)>>, 9),
       CallN(<<IdN("fn", 11), VecN(<<IdN("b", 14)>>, 15), IdN("z", 17)>>,
       18)>>, 19), CallN(<<IdN("let", 21), VecN(<<IdN("z", 25), IntN(1,
       27)>>, 28), CallN(<<CallN(<<IdN("mk", 30), IntN(0, 33)>>, 34), IntN(2,
       36)>>, 37)>>, 38)>>

\* (if true 1 (/ 1 0))
P_if1 ==
    <<CallN(<<IdN("if", 0), IdN("true", 3), IntN(1, 8), CallN(<<IdN("/", 10),
       IntN(1, 12), IntN(0, 14)>>, 15)>>, 16)>>

\* (if false (/ 1 0) 2)
P_if2 ==
    <<CallN(<<IdN("if", 0), IdN("false", 3), CallN(<<IdN("/", 9), IntN(1,
       11), IntN(0, 13)>>, 14), IntN(2, 16)>>, 17)>>

\* (when false (/ 1 0)) (when 1 7)
P_when1 ==
    <<CallN(<<IdN("when", 0), IdN("false", 5), CallN(<<IdN("/", 11), IntN(1,
       13), IntN(0, 15)>>, 16)>>, 17), CallN(<<IdN("when", 19), IntN(1, 24),
       IntN(7, 26)>>, 27)>>

\* (map (fn [x] (if (> x 1) (/ 4 x) (- 0 x))) [1 2])
P_ifmap ==
    <<CallN(<<IdN("map", 0), CallN(<<IdN("fn", 4), VecN(<<IdN("x", 7)>>, 8),
       CallN(<<IdN("if", 10), CallN(<<IdN(">", 13), IdN("x", 15), IntN(1,
       17)>>, 18), CallN(<<IdN("/", 20), IntN(4, 22), IdN("x", 24)>>, 25),
       CallN(<<IdN("-", 27), IntN(0, 29), IdN("x", 31)>>, 32)>>, 33)>>, 34),
       VecN(<<IntN(1, 36), IntN(2, 38)>>, 39)>>, 40)>>

\* (defn f [x] (if (> x 1) (exit x) x)) (map f [1 2 3]) (/ 1 0)
P_exit1 ==
    <<CallN(<<IdN("defn", 0), IdN("f", 5), VecN(<<IdN("x", 7)>>, 8),
       CallN(<<IdN("if", 10), CallN(<<IdN(">", 13), IdN("x", 15), IntN(1,
       17)>>, 18), CallN(<<IdN("exit", 20), IdN("x", 25)>>, 26), IdN("x",
       28)>>, 29)>>, 30), CallN(<<IdN("map", 32), IdN("f", 36),
       VecN(<<IntN(1, 38), IntN(2, 40), IntN(3, 42)>>, 43)>>, 44),
       CallN(<<IdN("/", 46), IntN(1, 48), IntN(0, 50)>>, 51)>>

\* (let [a 5] (+ 1 (exit a))) 99
P_exit2 ==
    <<CallN(<<IdN("let", 0), VecN(<<IdN("a", 4), IntN(5, 6)>>, 7),
       CallN(<<IdN("+", 9), IntN(1, 11), CallN(<<IdN("exit", 13), IdN("a",
       18)>>, 19)>>, 20)>>, 21), IntN(99, 23)>>

\* (exit (exit 1)) 2
P_exit3 ==
    <<CallN(<<IdN("exit", 0), CallN(<<IdN("exit", 5), IntN(1, 10)>>, 11)>>,
       12), IntN(2, 14)>>

\* 1 2 (+ 1 2)
P_seq1 ==
    <<IntN(1, 0), IntN(2, 2), CallN(<<IdN("+", 4), IntN(1, 6), IntN(2, 8)>>,
       9)>>

\* (case 5 1 "a" 2 "b" "z")
P_case1 ==
    <<CallN(<<IdN("case", 0), IntN(5, 5), IntN(1, 7), StrN("a", 9), IntN(2,
       13), StrN("b", 15), StrN("z", 19)>>, 22)>>

\* (case 5 1 "a" 2 "b")
P_case2 ==
    <<CallN(<<IdN("case", 0), IntN(5, 5), IntN(1, 7), StrN("a", 9), IntN(2,
       13), StrN("b", 15)>>, 18)>>

\* (case 2 1 "a" 2 "b")
P_case3 ==
    <<CallN(<<IdN("case", 0), IntN(2, 5), IntN(1, 7), StrN("a", 9), IntN(2,
       13), StrN("b", 15)>>, 18)>>

\* (case 1 9)
P_case4 ==
    <<CallN(<<IdN("case", 0), IntN(1, 5), IntN(9, 7)>>, 8)>>

\* (case (+ 1 1) 2 "x" (/ 1 0) "y" "d")
P_case5 ==
    <<CallN(<<IdN("case", 0), CallN(<<IdN("+", 5), IntN(1, 7), IntN(1, 9)>>,
       10), IntN(2, 12), StrN("x", 14), CallN(<<IdN("/", 18), IntN(1, 20),
       IntN(0, 22)>>, 23), StrN("y", 25), StrN("d", 29)>>, 32)>>

\* ((fn [] 7))
P_fn0 ==
    <<CallN(<<CallN(<<IdN("fn", 0), VecN(<<>>, 3), IntN(7, 5)>>, 6)>>, 7)>>

\* ((fn [a b] (- a b)) 5 3)
P_fn2 ==
    <<CallN(<<CallN(<<IdN("fn", 0), VecN(<<IdN("a", 3), IdN("b", 5)>>, 6),
       CallN(<<IdN("-", 8), IdN("a", 10), IdN("b", 12)>>, 13)>>, 14), IntN(5,
       16), IntN(3, 18)>>, 19)>>

\* ((fn [a & rest] rest) 1 2 3)
P_rest1 ==
    <<CallN(<<CallN(<<IdN("fn", 0), VecN(<<IdN("a", 3), IdN("&", 5),
       IdN("rest", 7)>>, 11), IdN("rest", 13)>>, 17), IntN(1, 19), IntN(2,
       21), IntN(3, 23)>>, 24)>>

\* ((fn [& r] r))
P_rest2 ==
    <<CallN(<<CallN(<<IdN("fn", 0), VecN(<<IdN("&", 3), IdN("r", 5)>>, 6),
       IdN("r", 8)>>, 9)>>, 10)>>

\* (if true 1)
P_arity1 ==
    <<CallN(<<IdN("if", 0), IdN("true", 3), IntN(1, 8)>>, 9)>>

\* (- (/ 1 0))
P_arity2 ==
    <<CallN(<<IdN("-", 0), CallN(<<IdN("/", 2), IntN(1, 4), IntN(0, 6)>>,
       7)>>, 8)>>

\* ((fn [a b] a) 1)
P_arity3 ==
    <<CallN(<<CallN(<<IdN("fn", 0), VecN(<<IdN("a", 3), IdN("b", 5)>>, 6),
       IdN("a", 8)>>, 9), IntN(1, 11)>>, 12)>>

\* ((fn [a] a) 1 (/ 1 0))
P_arity4 ==
    <<CallN(<<CallN(<<IdN("fn", 0), VecN(<<IdN("a", 3)>>, 4), IdN("a", 6)>>,
       7), IntN(1, 9), CallN(<<IdN("/", 11), IntN(1, 13), IntN(0, 15)>>,
       16)>>, 17)>>

\* (/ 1 2 (exit 3))
P_arity5 ==
    <<CallN(<<IdN("/", 0), IntN(1, 2), IntN(2, 4), CallN(<<IdN("exit", 6),
       IntN(3, 11)>>, 12)>>, 13)>>

\* (+ x 1)
P_host1 ==
    <<CallN(<<IdN("+", 0), IdN("x", 2), IntN(1, 4)>>, 5)>>

\* (if true 1 2)
P_host2 ==
    <<CallN(<<IdN("if", 0), IdN("true", 3), IntN(1, 8), IntN(2, 10)>>, 11)>>

\* (inc 1)
P_host3 ==
    <<CallN(<<IdN("inc", 0), IntN(1, 4)>>, 5)>>

\* (defn inc [x] (- x 1)) (inc 5)
P_redef1 ==
    <<CallN(<<IdN("defn", 0), IdN("inc", 5), VecN(<<IdN("x", 9)>>, 10),
       CallN(<<IdN("-", 12), IdN("x", 14), IntN(1, 16)>>, 17)>>, 18),
       CallN(<<IdN("inc", 20), IntN(5, 24)>>, 25)>>

\* (defn f [x] (defn + [a b] 0)) (f 1) (+ 1 2)
P_redef2 ==
    <<CallN(<<IdN("defn", 0), IdN("f", 5), VecN(<<IdN("x", 7)>>, 8),
       CallN(<<IdN("defn", 10), IdN("+", 15), VecN(<<IdN("a", 17), IdN("b",
       19)>>, 20), IntN(0, 22)>>, 23)>>, 24), CallN(<<IdN("f", 26), IntN(1,
       28)>>, 29), CallN(<<IdN("+", 31), IntN(1, 33), IntN(2, 35)>>, 36)>>

\* (redefine 3) ((twice inc) 1)
P_redef3 ==
    <<CallN(<<IdN("redefine", 0), IntN(3, 9)>>, 10),
       CallN(<<CallN(<<IdN("twice", 12), IdN("inc", 18)>>, 21), IntN(1,
       23)>>, 24)>>

\* (defn foo [a] (+ a 1))
P_def1 ==
    <<CallN(<<IdN("defn", 0), IdN("foo", 5), VecN(<<IdN("a", 9)>>, 10),
       CallN(<<IdN("+", 12), IdN("a", 14), IntN(1, 16)>>, 17)>>, 18)>>

\* (foo 1)
P_use1 ==
    <<CallN(<<IdN("foo", 0), IntN(1, 4)>>, 5)>>

\* (reduce + 0 [1 2 3])
P_reduce1 ==
    <<CallN(<<IdN("reduce", 0), IdN("+", 7), IntN(0, 9), VecN(<<IntN(1, 11),
       IntN(2, 13), IntN(3, 15)>>, 16)>>, 17)>>

\* (reduce (fn [x acc] (- acc x)) 10 [1 2])
P_reduce2 ==
    <<CallN(<<IdN("reduce", 0), CallN(<<IdN("fn", 7), VecN(<<IdN("x", 10),
       IdN("acc", 12)>>, 15), CallN(<<IdN("-", 17), IdN("acc", 19), IdN("x",
       23)>>, 24)>>, 25), IntN(10, 27), VecN(<<IntN(1, 30), IntN(2, 32)>>,
       33)>>, 34)>>

\* (let [z 0] (reduce + z [1 2]))
P_reduce3 ==
    <<CallN(<<IdN("let", 0), VecN(<<IdN("z", 4), IntN(0, 6)>>, 7),
       CallN(<<IdN("reduce", 9), IdN("+", 16), IdN("z", 18), VecN(<<IntN(1,
       20), IntN(2, 22)>>, 23)>>, 24)>>, 25)>>

\* (reduce + (+ 0 0) [1 2])
P_reduce4 ==
    <<CallN(<<IdN("reduce", 0), IdN("+", 7), CallN(<<IdN("+", 9), IntN(0,
       11), IntN(0, 13)>>, 14), VecN(<<IntN(1, 16), IntN(2, 18)>>, 19)>>,
       20)>>

\* (reduce + x [1 2])
P_reduce5 ==
    <<CallN(<<IdN("reduce", 0), IdN("+", 7), IdN("x", 9), VecN(<<IntN(1, 11),
       IntN(2, 13)>>, 14)>>, 15)>>

\* (reduce + "a" [])
P_reduce6 ==
    <<CallN(<<IdN("reduce", 0), IdN("+", 7), StrN("a", 9), VecN(<<>>, 13)>>,
       14)>>

\* (let [p (partial + 1)] ((fn [x] (p x)) 5))
P_partial1 ==
    <<CallN(<<IdN("let", 0), VecN(<<IdN("p", 4), CallN(<<IdN("partial", 6),
       IdN("+", 14), IntN(1, 16)>>, 17)>>, 18), CallN(<<CallN(<<IdN("fn",
       20), VecN(<<IdN("x", 23)>>, 24), CallN(<<IdN("p", 26), IdN("x", 28)>>,
       29)>>, 30), IntN(5, 32)>>, 33)>>, 34)>>

\* (defn add [a b] (+ a b)) (defn g [x] ((partial add 1) x)) (g 5)
P_partial2 ==
    <<CallN(<<IdN("defn", 0), IdN("add", 5), VecN(<<IdN("a", 9), IdN("b",
       11)>>, 12), CallN(<<IdN("+", 14), IdN("a", 16), IdN("b", 18)>>, 19)>>,
       20), CallN(<<IdN("defn", 22), IdN("g", 27), VecN(<<IdN("x", 29)>>,
       30), CallN(<<CallN(<<IdN("partial", 32), IdN("add", 40), IntN(1,
       44)>>, 45), IdN("x", 47)>>, 48)>>, 49), CallN(<<IdN("g", 51), IntN(5,
       53)>>, 54)>>

\* ((partial - 10) 4)
P_partial3 ==
    <<CallN(<<CallN(<<IdN("partial", 0), IdN("-", 8), IntN(10, 10)>>, 12),
       IntN(4, 14)>>, 15)>>

\* (apply + [1 2 3])
P_apply1 ==
    <<CallN(<<IdN("apply", 0), IdN("+", 6), VecN(<<IntN(1, 8), IntN(2, 10),
       IntN(3, 12)>>, 13)>>, 14)>>

\* (filter (fn [x] (> x 1)) [1 2 3])
P_filter1 ==
    <<CallN(<<IdN("filter", 0), CallN(<<IdN("fn", 7), VecN(<<IdN("x", 10)>>,
       11), CallN(<<IdN(">", 13), IdN("x", 15), IntN(1, 17)>>, 18)>>, 19),
       VecN(<<IntN(1, 21), IntN(2, 23), IntN(3, 25)>>, 26)>>, 27)>>

\* (no statement)
P_empty ==
    <<>>

\* the programs a host may hand to interpret
Programs ==
    <<P_closure1, P_closure2, P_closure3, P_if1, P_if2, P_when1, P_ifmap,
      P_exit1, P_exit2, P_exit3, P_seq1, P_case1, P_case2, P_case3, P_case4,
      P_case5, P_fn0, P_fn2, P_rest1, P_rest2, P_arity1, P_arity2, P_arity3,
      P_arity4, P_arity5, P_host1, P_host2, P_host3, P_redef1, P_redef2,
      P_redef3, P_def1, P_use1, P_reduce1, P_reduce2, P_reduce3, P_reduce4,
      P_reduce5, P_reduce6, P_partial1, P_partial2, P_partial3, P_apply1,
      P_filter1, P_empty>>

-----------------------------------------------------------------------------
(* The driver: module initialisation (the load of library.bedlam) and the  *)
(* interpret calls of the host, one top-level statement per step.          *)

\* how many interpret calls the host makes
MaxRuns == 2

\* the dictionary _builtins
BuiltinsFrame == 1

\* the dictionary _library
LibFrame == 2

\* the dictionary the host keeps and may hand to interpret as scope
HostFrame == 3

\* what the host's dictionary may hold before the first call
HostScopes ==
    <<[n \in {"x"} |-> IntV(5)],
      [n \in {"x", "true", "inc"} |->
          CASE n = "x" -> IntV(7) [] n = "true" -> IntV(0) [] n = "inc" -> IntV(42)]>>

Frame(s) == [scope |-> s, parent |-> NoParent]

NoOutcome == [k |-> "none", v |-> NilV]

\* a default scope shared between calls: scope = _library if scope is None
interpret_scope_shared(arg, hp) ==
    [scope |-> IF arg = None THEN LibFrame ELSE arg, heap |-> hp]

\* scope = {} if scope is None else scope: the frame of the scope and the heap
interpret_scope(arg, hp) ==
    IF arg = None
    THEN [scope |-> Len(hp) + 1, heap |-> Append(hp, Frame(EmptyScope))]
    ELSE [scope |-> arg, heap |-> hp]

\* scope.update(_builtins); scope.update(_library)
interpret_update(s, hp) ==
    [hp EXCEPT ![s].scope = Update(Update(@, hp[BuiltinsFrame].scope), hp[LibFrame].scope)]

\* The frames of an earlier call that nothing refers to any more are dropped:
\* _builtins, _library and the host's dictionary hold only values that refer
\* to these three dictionaries themselves.
Collect(hp) == SubSeq(hp, 1, HostFrame)

\* interpret, up to the call of evaluate_all
Enter(program, arg) ==
    LET e == interpret_scope(arg, Collect(heap))
    IN /\ heap' = interpret_update(e.scope, e.heap)
       /\ scope' = e.scope
       /\ given' = IF arg = None THEN EmptyScope ELSE heap[arg].scope
       /\ ast' = program
       /\ pc' = 0
       /\ results' = <<>>
       /\ log' = <<>>
       /\ outcome' = NoOutcome
       /\ phase' = "running"

Init ==
    /\ phase = "boot"
    /\ \E h \in 1..Len(HostScopes) :
          heap = <<Frame(Builtins), Frame(EmptyScope), Frame(HostScopes[h])>>
    /\ ast = <<>>
    /\ scope = LibFrame
    /\ given = EmptyScope
    /\ pc = 0
    /\ results = <<>>
    /\ log = <<>>
    /\ outcome = NoOutcome
    /\ runs = 0

\* with open('library.bedlam') as f: interpret(parse(f.read()), _library)
LoadLibrary ==
    /\ phase = "boot"
    /\ Enter(Prelude, LibFrame)
    /\ UNCHANGED runs

\* a call interpret(ast, scope) by the host
Interpret(i, arg) ==
    /\ phase = "idle"
    /\ runs < MaxRuns
    /\ Enter(Programs[i], arg)
    /\ runs' = runs + 1

\* one iteration of evaluate_all's loop over the top-level statements; an
\* InterpreterReturn ends the call with its value, any other exception
\* reaches the caller
EvaluateNext ==
    /\ phase = "running"
    /\ pc < Len(ast)
    /\ LET r == evaluate(ast[pc + 1], scope, [heap |-> heap, log |-> log, top |-> 0])
       IN /\ heap' = r.st.heap
          /\ log' = r.st.log
          /\ pc' = IF r.k = "val" THEN pc + 1 ELSE pc
          /\ results' = IF r.k = "val" THEN Append(results, r.v) ELSE results
          /\ phase' = IF r.k = "val" THEN "running" ELSE "idle"
          /\ outcome' = CASE r.k = "val" -> outcome
                          [] r.k = "exit" -> [k |-> "return", v |-> r.v]
                          [] OTHER -> [k |-> r.k, v |-> r.v]
    /\ UNCHANGED <<ast, scope, given, runs>>

\* return result[-1]
Return ==
    /\ phase = "running"
    /\ pc = Len(ast)
    /\ outcome' = IF results = <<>>
                  THEN [k |-> "host", v |-> [t |-> "IndexError", v |-> <<>>]]
                  ELSE [k |-> "return", v |-> results[Len(results)]]
    /\ phase' = "idle"
    /\ UNCHANGED <<heap, ast, scope, given, pc, results, log, runs>>

Next ==
    \/ LoadLibrary
    \/ \E i \in 1..Len(Programs), arg \in {None, HostFrame} : Interpret(i, arg)
    \/ EvaluateNext
    \/ Return

Spec == Init /\ [][Next]_vars

-----------------------------------------------------------------------------
(* Reading the trace *)

\* the calls of evaluate made directly from call j, in order (0: the driver)
Kids(j) == SelectSeq([i \in 1..Len(log) |-> i], LAMBDA i : log[i].up = j)

\* call i of evaluate was made, directly or not, from call j
RECURSIVE Under(_, _)
Under(j, i) ==
    LET u == log[i].up
    IN u # 0 /\ (u = j \/ Under(j, u))

\* entry j evaluates a parsed call node whose callee evaluated to a value
IsCall(j) ==
    /\ log[j].node.type = "call"
    /\ log[j].node.value.t = "nodes"
    /\ Len(log[j].node.value.v) >= 1
    /\ j + 1 <= Len(log)
    /\ log[j + 1].up = j
    /\ log[j + 1].k = "val"

Callee(j) == log[j + 1].v

Args(j) == Tail(log[j].node.value.v)

CallsBuiltin(j, name) == IsCall(j) /\ Callee(j).t = "builtin" /\ Callee(j).v = name

CallsClosure(j) == IsCall(j) /\ Callee(j).t = "closure"

\* the same node, the same payload, the same value: equality taken kind by
\* kind, so that values of different kinds are different and never compared
RECURSIVE NodeEq(_, _)
RECURSIVE PayloadEq(_, _)
RECURSIVE SameValue(_, _)
NodeEq(a, b) ==
    a.type = b.type /\ a.location = b.location /\ PayloadEq(a.value, b.value)

PayloadEq(x, y) ==
    /\ x.t = y.t
    /\ IF x.t = "nodes"
       THEN /\ Len(x.v) = Len(y.v)
            /\ \A i \in 1..Len(x.v) : NodeEq(x.v[i], y.v[i])
       ELSE SameValue(x, y)

SameValue(x, y) ==
    /\ x.t = y.t
    /\ CASE x.t = "list" ->
               /\ Len(x.v) = Len(y.v)
               /\ \A i \in 1..Len(x.v) : SameValue(x.v[i], y.v[i])
         [] x.t \in {"closure", "partial"} ->
               x.v.context = y.v.context /\ NodeEq(x.v.node, y.v.node)
         [] OTHER -> x.v = y.v

SameFrame(a, b) ==
    /\ a.parent = b.parent
    /\ DOMAIN a.scope = DOMAIN b.scope
    /\ \A n \in DOMAIN a.scope : SameValue(a.scope[n], b.scope[n])

SameResult(a, b) == log[a].k = log[b].k /\ SameValue(log[a].v, log[b].v)

Returned(x) == outcome.k = "return" /\ SameValue(outcome.v, x)

IsName(node) == node.type = "identifier" /\ node.value.t = "str"

\* the library load is under way
Loading == phase = "boot" \/ (phase = "running" /\ runs = 0)

\* Between calls the three long-lived dictionaries refer to no other frame.
PersistentClosed ==
    phase = "idle" =>
        \A f \in 1..HostFrame : \A n \in DOMAIN heap[f].scope :
            heap[f].scope[n].t \in {"closure", "partial"}
                => heap[f].scope[n].v.context <= HostFrame

-----------------------------------------------------------------------------
(* C1 *)

\* the last call made from closure call j is the evaluation of the body
IsBody(j, e) ==
    /\ e = Kids(j)[Len(Kids(j))]
    /\ NodeEq(log[e].node, Callee(j).v.body)
    /\ log[e].ctx # log[j].ctx

\* C1: lexical closure.  A function value records the context fn was
\* evaluated in; each call of it evaluates the argument nodes in the caller's
\* context and the body in a frame whose parent is that recorded context; and
\* an identifier evaluates to a value exactly when the frame chain of the
\* context it is evaluated in binds it.  So a free identifier of a returned
\* function is resolved through its definition site and never through a
\* binding that only the call site has.
LexicalClosure ==
    /\ \A j \in 1..Len(log) :
          (CallsBuiltin(j, "fn") /\ log[j].k = "val")
              => log[j].v.t = "closure" /\ log[j].v.v.context = log[j].ctx
    /\ \A j \in 1..Len(log) :
          CallsClosure(j) =>
              \A q \in 2..Len(Kids(j)) :
                  LET e == Kids(j)[q]
                  IN IF IsBody(j, e)
                     THEN heap[log[e].ctx].parent = Callee(j).v.context
                     ELSE /\ log[e].ctx = log[j].ctx
                          /\ \E a \in 1..Len(Args(j)) : Args(j)[a] = log[e].node
    /\ \A i \in 1..Len(log) :
          IsName(log[i].node) =>
              (log[i].k = "val"
                  <=> Resolve(log[i].node.value.v, log[i].ctx, heap) # NoParent)

\* C1 witness: a function made inside a call that has returned is called from
\* a frame that binds a free identifier of its body to another value, and the
\* identifier evaluates to the binding of the definition site.
LexicalClosureWitness ==
    \E j \in 1..Len(log) :
        /\ CallsClosure(j)
        /\ log[j].k = "val"
        /\ heap[Callee(j).v.context].parent # NoParent
        /\ Callee(j).v.context # log[j].ctx
        /\ \E o \in 1..Len(log) :
              log[o].ctx = Callee(j).v.context /\ o < j /\ ~Under(o, j)
        /\ \E i \in 1..Len(log) :
              /\ Under(j, i)
              /\ IsName(log[i].node)
              /\ log[i].k = "val"
              /\ heap[log[i].ctx].parent = Callee(j).v.context
              /\ LET n == log[i].node.value.v
                 IN /\ n \in DOMAIN heap[log[j].ctx].scope
                    /\ n \in DOMAIN heap[Callee(j).v.context].scope
                    /\ n \notin DOMAIN heap[log[i].ctx].scope
                    /\ SameValue(log[i].v, heap[Callee(j).v.context].scope[n])
                    /\ ~SameValue(log[i].v, heap[log[j].ctx].scope[n])

-----------------------------------------------------------------------------
(* C2 *)

\* the calls made from the evaluation j of (if c a b)
IfSelects(j) ==
    LET kids == Kids(j)
        args == Args(j)
    IN /\ Len(kids) >= 2
       /\ NodeEq(log[kids[2]].node, args[1])
       /\ log[kids[2]].ctx = log[j].ctx
       /\ IF log[kids[2]].k = "val"
          THEN /\ Len(kids) = 3
               /\ NodeEq(log[kids[3]].node, IF Truthy(log[kids[2]].v) THEN args[2] ELSE args[3])
               /\ log[kids[3]].ctx = log[j].ctx
               /\ SameResult(j, kids[3])
          ELSE Len(kids) = 2 /\ SameResult(j, kids[2])

\* the calls made from the evaluation j of (when c a)
WhenSelects(j) ==
    LET kids == Kids(j)
        args == Args(j)
    IN /\ Len(kids) >= 2
       /\ NodeEq(log[kids[2]].node, args[1])
       /\ log[kids[2]].ctx = log[j].ctx
       /\ IF log[kids[2]].k # "val" THEN Len(kids) = 2 /\ SameResult(j, kids[2])
          ELSE IF Truthy(log[kids[2]].v)
          THEN /\ Len(kids) = 3
               /\ NodeEq(log[kids[3]].node, args[2])
               /\ log[kids[3]].ctx = log[j].ctx
               /\ SameResult(j, kids[3])
          ELSE Len(kids) = 2 /\ log[j].k = "val" /\ log[j].v.t = "nil"

\* C2: branch selection.  An evaluation of (if c a b) evaluates, besides the
\* callee, c once and then exactly one of a and b (a when c is truthy),
\* whose result is its result; an evaluation of (when c a) evaluates a only
\* when c is truthy and is nil otherwise.  The other branch is not evaluated.
BranchSelection ==
    \A j \in 1..Len(log) :
        /\ (CallsBuiltin(j, "if") /\ Len(Args(j)) = 3) => IfSelects(j)
        /\ (CallsBuiltin(j, "when") /\ Len(Args(j)) = 2) => WhenSelects(j)

\* C2 witness: an if whose branch not taken is a division by zero has a value
BranchSelectionWitness ==
    \E j \in 1..Len(log) :
        /\ CallsBuiltin(j, "if")
        /\ Len(Args(j)) = 3
        /\ log[j].k = "val"
        /\ LET u == IF Truthy(log[Kids(j)[2]].v) THEN Args(j)[3] ELSE Args(j)[2]
           IN /\ u.type = "call"
              /\ Len(u.value.v) = 3
              /\ u.value.v[1].value.t = "str" /\ u.value.v[1].value.v = "/"
              /\ u.value.v[3].value.t = "int" /\ u.value.v[3].value.v = 0

-----------------------------------------------------------------------------
(* C3 *)

\* entry j evaluates (exit e) and e has evaluated to a value
ExitForm(j) ==
    /\ CallsBuiltin(j, "exit")
    /\ Len(Args(j)) = 1
    /\ Len(Kids(j)) = 2
    /\ log[Kids(j)[2]].k = "val"

\* C3: early exit.  The top-level statements are evaluated left to right in
\* the one context of the call; when all have a value interpret returns the
\* last one's.  Once an (exit e) has evaluated e, at any depth, nothing more
\* is evaluated, every enclosing evaluation ends with the exit signal, and
\* interpret returns the value of e.
EarlyExit ==
    LET tops == Kids(0)
    IN /\ \A t \in 1..Len(tops) :
             NodeEq(log[tops[t]].node, ast[t]) /\ log[tops[t]].ctx = scope
       /\ phase = "running" =>
             /\ Len(tops) = pc
             /\ \A t \in 1..Len(tops) : log[tops[t]].k = "val"
       /\ ( /\ phase = "idle"
            /\ Len(ast) > 0
            /\ Len(tops) = Len(ast)
            /\ \A t \in 1..Len(tops) : log[tops[t]].k = "val" )
             => Returned(log[tops[Len(tops)]].v)
       /\ \A j \in 1..Len(log) :
             ExitForm(j) =>
                 LET e == Kids(j)[2]
                 IN /\ phase = "idle"
                    /\ Returned(log[e].v)
                    /\ \A i \in (e + 1)..Len(log) : Under(e, i)
                    /\ log[j].k = "exit" /\ SameValue(log[j].v, log[e].v)
                    /\ \A a \in 1..Len(log) :
                          Under(a, j) => log[a].k = "exit" /\ SameValue(log[a].v, log[e].v)

\* C3 witness: an exit two calls deep ended a run that had statements left
EarlyExitWitness ==
    \E j \in 1..Len(log) :
        /\ ExitForm(j)
        /\ log[j].up # 0
        /\ log[log[j].up].up # 0
        /\ \E a \in 1..Len(log) : Under(a, j) /\ CallsClosure(a)
        /\ Len(Kids(0)) < Len(ast)
        /\ phase = "idle"
        /\ Returned(log[Kids(j)[2]].v)

-----------------------------------------------------------------------------
(* C8 *)

\* the names library.bedlam defines
PreludeNames == {Prelude[i].value.v[2].value.v : i \in 1..Len(Prelude)}

\* C8: prelude immutability.  Once the library is loaded no step changes the
\* dictionaries _builtins and _library, nor the host's dictionary unless it
\* is the scope of the call; and a call given no scope starts with the
\* builtins and the library's definitions and nothing a run has defined.
PreludeImmutable ==
    /\ []( (phase = "running" /\ runs >= 1 /\ pc = 0 /\ scope # HostFrame)
             => DOMAIN heap[scope].scope = DOMAIN Builtins \cup PreludeNames )
    /\ [][ ~Loading =>
             /\ SameFrame(heap'[BuiltinsFrame], heap[BuiltinsFrame])
             /\ SameFrame(heap'[LibFrame], heap[LibFrame])
             /\ scope' # HostFrame => SameFrame(heap'[HostFrame], heap[HostFrame]) ]_vars

\* C8 witness: a run redefined the library's inc in the host's dictionary, and
\* a later run given no scope calls inc and gets the library's
PreludeImmutableWitness ==
    /\ runs = 2
    /\ phase = "idle"
    /\ scope # HostFrame
    /\ "inc" \in DOMAIN heap[HostFrame].scope
    /\ heap[HostFrame].scope["inc"].t = "closure"
    /\ heap[HostFrame].scope["inc"].v.context = HostFrame
    /\ ast = P_host3
    /\ Returned(IntV(2))

-----------------------------------------------------------------------------
(* C4 *)

\* the number of key/value pairs of a case with these arguments
CasePairs(args) == (Len(args) - 1) \div 2

\* the case j evaluated its subject and every key, and no key equals it
NoKeyMatched(j) ==
    LET kids == Kids(j)
        args == Args(j)
        n == CasePairs(args)
    IN /\ Len(kids) >= 2 + n
       /\ NodeEq(log[kids[2]].node, args[1])
       /\ log[kids[2]].k = "val"
       /\ \A p \in 1..n :
             /\ NodeEq(log[kids[2 + p]].node, args[2 * p])
             /\ log[kids[2 + p]].k = "val"
             /\ ~PyEq(log[kids[2 + p]].v, log[kids[2]].v)

\* C4: case with no matching key.  A case of n >= 0 pairs whose keys all
\* differ from the subject has the result of its trailing default when it has
\* one, and otherwise raises the language's "Case failed to match" error at
\* the location of the case node.
CaseNoMatch ==
    \A j \in 1..Len(log) :
        (CallsBuiltin(j, "case") /\ Len(Args(j)) >= 2 /\ NoKeyMatched(j)) =>
            LET kids == Kids(j)
                args == Args(j)
            IN IF (Len(args) - 1) % 2 = 1
               THEN /\ Len(kids) = 3 + CasePairs(args)
                    /\ NodeEq(log[kids[Len(kids)]].node, args[Len(args)])
                    /\ SameResult(j, kids[Len(kids)])
               ELSE /\ Len(kids) = 2 + CasePairs(args)
                    /\ log[j].k = "err"
                    /\ log[j].v.t = "InterpeterError"
                    /\ log[j].v.v = <<"Case failed to match", log[j].node.location>>

-----------------------------------------------------------------------------
(* C5, C6 *)

Formals(f) == f.params.value.v

HasRest(f) == Len(Formals(f)) >= 2 /\ Formals(f)[Len(Formals(f)) - 1].value.v = "&"

\* the number of plain formals
Plain(f) == IF HasRest(f) THEN Len(Formals(f)) - 2 ELSE Len(Formals(f))

\* n plain formals, then at most one rest formal
WellFormed(f) ==
    /\ \A i \in 1..Plain(f) : Formals(f)[i].value.v # "&"
    /\ Len(Formals(f)) = 0 \/ Formals(f)[Len(Formals(f))].value.v # "&"

Fits(f, m) == IF HasRest(f) THEN m >= Plain(f) ELSE m = Plain(f)

\* the values of the argument evaluations from..to of call j
RECURSIVE ArgValues(_, _, _)
ArgValues(j, from, to) ==
    IF from > to THEN <<>>
    ELSE <<log[Kids(j)[1 + from]].v>> \o ArgValues(j, from + 1, to)

\* every argument node of call j was evaluated, in order, to a value
ArgsEvaluated(j) ==
    /\ Len(Kids(j)) >= 1 + Len(Args(j))
    /\ \A a \in 1..Len(Args(j)) :
          /\ NodeEq(log[Kids(j)[1 + a]].node, Args(j)[a])
          /\ log[Kids(j)[1 + a]].ctx = log[j].ctx
          /\ log[Kids(j)[1 + a]].k = "val"

\* C5: user function invocation.  A call of a function of n >= 0 plain
\* formals and an optional rest formal with as many arguments as fit, all
\* of which have a value, evaluates the body in one new frame whose parent is
\* the defining context and which binds formal i to argument i's value and
\* the rest formal to the list of the remaining values, and has the body's
\* result.
UserInvocation ==
    \A j \in 1..Len(log) :
        ( /\ CallsClosure(j)
          /\ WellFormed(Callee(j).v)
          /\ Fits(Callee(j).v, Len(Args(j)))
          /\ ArgsEvaluated(j) ) =>
            LET f == Callee(j).v
                m == Len(Args(j))
                b == Kids(j)[Len(Kids(j))]
                frame == heap[log[b].ctx]
            IN /\ Len(Kids(j)) = 2 + m
               /\ NodeEq(log[b].node, f.body)
               /\ \A o \in 1..Len(log) : (o < b /\ o # j) => log[o].ctx # log[b].ctx
               /\ frame.parent = f.context
               /\ \A i \in 1..Plain(f) :
                     /\ Formals(f)[i].value.v \in DOMAIN frame.scope
                     /\ SameValue(frame.scope[Formals(f)[i].value.v], log[Kids(j)[1 + i]].v)
               /\ HasRest(f) =>
                     /\ Formals(f)[Len(Formals(f))].value.v \in DOMAIN frame.scope
                     /\ SameValue(frame.scope[Formals(f)[Len(Formals(f))].value.v],
                             ListV(ArgValues(j, Plain(f) + 1, m)))
               /\ SameResult(j, b)

\* the exact and the minimal argument count of a special form or primitive
\* (None: not checked)
BuiltinArity(name) ==
    CASE name \in {"apply", "map", "filter", "when", "-", "/", ">", "<", "="}
            -> [exact |-> 2, min |-> None]
      [] name \in {"reduce", "if"} -> [exact |-> 3, min |-> None]
      [] name \in {"exit", "not"} -> [exact |-> 1, min |-> None]
      [] name = "defn" -> [exact |-> None, min |-> 3]
      [] name \in {"fn", "partial", "let", "case"} -> [exact |-> None, min |-> 2]
      [] OTHER -> [exact |-> None, min |-> None]

IsArityError(j) ==
    /\ log[j].k = "err"
    /\ log[j].v.t = "InterpeterError"
    /\ log[j].v.v = <<ArityMessage, log[j].node.location>>

\* C6: arity errors.  A special form or primitive called outside its arity
\* raises the language's arity error at the call node before any argument is
\* evaluated, and so does a user function called with fewer or more arguments
\* than its formals allow even when nothing evaluated for the call failed.
ArityErrors ==
    \A j \in 1..Len(log) :
        /\ ( /\ IsCall(j)
             /\ Callee(j).t = "builtin"
             /\ assert_arity(Args(j), BuiltinArity(Callee(j).v).exact,
                             BuiltinArity(Callee(j).v).min, None) )
              => IsArityError(j) /\ Len(Kids(j)) = 1
        /\ ( /\ CallsClosure(j)
             /\ WellFormed(Callee(j).v)
             /\ ~Fits(Callee(j).v, Len(Args(j)))
             /\ \A q \in 1..Len(Kids(j)) : log[Kids(j)[q]].k = "val" )
              => IsArityError(j)

-----------------------------------------------------------------------------
(* C7 *)

\* C7: scope layering.  When a program starts in a scope the host supplied,
\* every name the host bound resolves to the host's value, also when a
\* builtin or the library binds the same name.
ScopeLayering ==
    (phase = "running" /\ runs >= 1 /\ pc = 0 /\ scope = HostFrame) =>
        \A n \in DOMAIN given :
            LET f == Resolve(n, scope, heap)
            IN f # NoParent /\ SameValue(heap[f].scope[n], given[n])

-----------------------------------------------------------------------------
(* C9 *)

\* C9: reduce is a left fold.  In every step of (reduce f init seq) whose init
\* has a value, the call made is of f on the next child of seq and an
\* accumulator node, and whenever that node is evaluated in the step its
\* value is the previous step's result (the value of init in the first step),
\* whatever kind of node init is; the reduce has the last step's result.
ReduceLeftFold ==
    \A j \in 1..Len(log) :
        ( /\ CallsBuiltin(j, "reduce")
          /\ Len(Args(j)) = 3
          /\ Args(j)[3].value.t = "nodes"
          /\ Len(Kids(j)) >= 2
          /\ NodeEq(log[Kids(j)[2]].node, Args(j)[2])
          /\ log[Kids(j)[2]].k = "val" ) =>
            LET kids == Kids(j)
                xs == Args(j)[3].value.v
            IN /\ Len(kids) - 2 <= Len(xs)
               /\ \A s \in 1..(Len(kids) - 2) :
                     LET e == kids[2 + s]
                         step == log[e].node
                     IN /\ step.type = "call"
                        /\ step.value.t = "nodes"
                        /\ Len(step.value.v) = 3
                        /\ NodeEq(step.value.v[1], Args(j)[1])
                        /\ NodeEq(step.value.v[2], xs[s])
                        /\ log[e].ctx = log[j].ctx
                        /\ \A i \in 1..Len(log) :
                              (log[i].up = e /\ i > e + 1 /\ NodeEq(log[i].node, step.value.v[3]))
                                  => log[i].k = "val" /\ SameValue(log[i].v, log[kids[1 + s]].v)
                        /\ s < Len(kids) - 2 => log[e].k = "val"
               /\ SameResult(j, kids[Len(kids)])
               /\ log[j].k = "val" => Len(kids) - 2 = Len(xs)

-----------------------------------------------------------------------------
(* C10 *)

\* C10: partial respects the caller's context.  A call (p b1 .. bm) of a
\* partial application evaluates the call of the function on the fixed and
\* the further arguments, and each further argument bj is evaluated in the
\* context of the call of p.
PartialCallerContext ==
    \A j \in 1..Len(log) :
        (IsCall(j) /\ Callee(j).t = "partial") =>
            /\ Len(Kids(j)) = 2
            /\ PayloadEq(log[Kids(j)[2]].node.value,
                         NodesV(<<Callee(j).v.name>> \o Callee(j).v.args \o Args(j)))
            /\ SameResult(j, Kids(j)[2])
            /\ \A i \in 1..Len(log) :
                  ( /\ log[i].up = Kids(j)[2]
                    /\ \E b \in 1..Len(Args(j)) : NodeEq(log[i].node, Args(j)[b]) )
                      => log[i].ctx = log[j].ctx

=============================================================================
